---- MODULE Spec2Model ----
(***************************************************************************)
(* Model of blinkist_free_dl.py: a sequential pipeline that fetches the    *)
(* free daily book over HTTP (every GET wrapped by a tenacity retry        *)
(* policy), writes the text document, the per-chapter audio files (tagged) *)
(* and the cover image.                                                    *)
(*                                                                         *)
(* Strings that the code inspects (file names, URLs, titles) are sequences *)
(* of one-character strings, so that formatting, rstrip, split, `in' and   *)
(* endswith are computed as Python computes them.                          *)
(***************************************************************************)
EXTENDS Integers, Sequences, FiniteSets, TLC

\* ------------------------------------------------------------------ bounds
MaxChapters == 2
MaxOrderNo == 10
MaxRuns == 2
MaxSources == 2
MaxSrcset == 1

\* ------------------------------------------------------- program constants
CLOUDFLARE_MAX_ATTEMPTS == 3
CLOUDFLARE_WAIT_TIME == 2

\* ----------------------------------------------------------- Python strings
DigitChar == <<"0", "1", "2", "3", "4", "5", "6", "7", "8", "9">>

\* code points order of the characters the model uses (ASCII order)
CharOrder == <<".", "/", "0", "1", "2", "3", "4", "5", "6", "7", "8", "9",
               "?", "Q", "a", "c", "d", "e", "g", "j", "m", "o", "p", "r", "v",
               "x">>

Ord(c) == CHOOSE k \in 1..Len(CharOrder) : CharOrder[k] = c

IsDigit(c) == \E k \in 1..10 : DigitChar[k] = c

DigitVal(c) == (CHOOSE k \in 1..10 : DigitChar[k] = c) - 1

RECURSIVE str(_)
\* str(n) / f"{n}" for a non-negative integer
str(n) == IF n < 10 THEN <<DigitChar[n + 1]>>
          ELSE str(n \div 10) \o <<DigitChar[(n % 10) + 1]>>

\* int(s): defined for a non-empty string of decimal digits, else ValueError
IsInt(s) == Len(s) > 0 /\ \A k \in 1..Len(s) : IsDigit(s[k])

RECURSIVE int(_)
int(s) == IF Len(s) = 0 THEN 0
          ELSE 10 * int(SubSeq(s, 1, Len(s) - 1)) + DigitVal(s[Len(s)])

RECURSIVE rstrip(_, _)
\* s.rstrip(chars): drops trailing characters that are members of chars
rstrip(s, chars) == IF Len(s) > 0 /\ s[Len(s)] \in chars
                    THEN rstrip(SubSeq(s, 1, Len(s) - 1), chars)
                    ELSE s

\* s.split('/')[-1]
LastSegment(s) ==
    LET slashes == {k \in 1..Len(s) : s[k] = "/"}
        last == IF slashes = {} THEN 0
                ELSE CHOOSE k \in slashes : \A m \in slashes : m <= k
    IN SubSeq(s, last + 1, Len(s))

endswith(s, suf) ==
    /\ Len(s) >= Len(suf)
    /\ SubSeq(s, Len(s) - Len(suf) + 1, Len(s)) = suf

\* sub in s
Contains(s, sub) ==
    \E k \in 0..(Len(s) - Len(sub)) : SubSeq(s, k + 1, k + Len(sub)) = sub

\* s < t as Python compares str values
StrLess(s, t) ==
    \/ /\ Len(s) < Len(t)
       /\ SubSeq(t, 1, Len(s)) = s
    \/ \E k \in 1..Len(s) :
         /\ k <= Len(t)
         /\ SubSeq(s, 1, k - 1) = SubSeq(t, 1, k - 1)
         /\ Ord(s[k]) < Ord(t[k])

\* pathvalidate.sanitize_filepath (universal platform): drops the characters
\* that are invalid in a path; of the model's characters only "?" is.
InvalidPathChars == {"?"}

RECURSIVE sanitize_filepath(_)
sanitize_filepath(s) ==
    IF Len(s) = 0 THEN <<>>
    ELSE IF s[1] \in InvalidPathChars THEN sanitize_filepath(Tail(s))
    ELSE <<s[1]>> \o sanitize_filepath(Tail(s))

\* -------------------------------------------------------- the upstream API
\* The item served as today's free daily.  The title holds a character that
\* is invalid in a path.
BookTitle == <<"Q", "?">>
BookAuthor == <<"a">>
BookUrl == <<"x">>

M4aUrl == <<"a", ".", "m", "4", "a">>
Mp3Url == <<"a", ".", "m", "p", "3">>
AudioUrls == {M4aUrl, Mp3Url}

OrderNos == {1, MaxOrderNo - 1, MaxOrderNo}

ChapterTitle(n) == <<"c">> \o str(n)
ChapterText(n) == <<"x">> \o str(n)

\* a chapter as the server holds it
ServerChapters == [order_no : OrderNos, signed_audio_url : AudioUrls]

\* the chapter lists the API may serve, in any list order; the sequence
\* numbers of the chapters of one book are distinct, and at most one chapter
\* has a signed url that is not an m4a url
ChapterLists ==
    {l \in UNION {[1..n -> ServerChapters] : n \in 0..MaxChapters} :
        \A a, b \in 1..Len(l) :
           a # b => /\ l[a].order_no # l[b].order_no
                    /\ M4aUrl \in {l[a].signed_audio_url,
                                   l[b].signed_audio_url}}

U(name) == <<"c", "/">> \o name
Url99 == U(<<"9", "9", ".", "j", "p", "g">>)
Url100 == U(<<"1", "0", "0", ".", "j", "p", "g">>)
Url400 == U(<<"4", "0", "0", ".", "j", "p", "g">>)
UrlX == U(<<"x", ".", "j", "p", "g">>)
Url9gpj == U(<<"9", ".", "g", "p", "j">>)
CoverUrls == {Url99, Url100, Url400, UrlX}

ImageSources == {s \in [src : CoverUrls, srcset : SUBSET CoverUrls] :
                    Cardinality(s.srcset) <= MaxSrcset}

\* book['image']['sources']
Images == UNION {[1..n -> ImageSources] : n \in 0..MaxSources}

\* the image descriptors the pipeline specification draws from
PipelineImages ==
    { <<>>,
      <<[src |-> Url100, srcset |-> {Url400}]>>,
      <<[src |-> UrlX, srcset |-> {}]>>,
      <<[src |-> Url9gpj, srcset |-> {}]>> }

\* What one scraper.get can produce: the challenge exception of cloudscraper,
\* or a response with a status code and a body that is well-formed or not.
Challenge == [raised |-> TRUE, status |-> 0, body |-> "none"]
Resp(st, b) == [raised |-> FALSE, status |-> st, body |-> b]
Outcomes == {Challenge, Resp(200, "good"), Resp(200, "bad"),
             Resp(204, "bad"), Resp(404, "bad")}

\* ------------------------------------------------------------------- state
VARIABLES
    server,        \* the item the API serves: chapters and image descriptor
    pc,            \* position of the module-level pipeline
    run,           \* number of the current invocation of the script
    book,          \* free_daily['book'], <<>> before it is fetched
    chapter_list,  \* chapter stubs
    chapters,      \* full chapters fetched so far
    i,             \* index of the chapter loops
    fs,            \* files of book_dir: path -> file
    fs0,           \* files of book_dir when the current run started
    attempt,       \* attempt number of the _request call in progress
    outcomes,      \* outcomes of the attempts of the latest _request call
    ret,           \* <<response>> returned by the latest _request call
    err,           \* the exception that ended the run
    sent,          \* whether the step just taken issued a GET request
    url            \* cover url selected by download_book_cover

vars == <<server, pc, run, book, chapter_list, chapters, i, fs, fs0,
          attempt, outcomes, ret, err, sent, url>>

prog == <<book, chapter_list, chapters, i, fs>>

\* ------------------------------------------------------------------- files
NoTags == [ART |-> <<>>, alb |-> <<>>, nam |-> <<>>]
\* a file: its bytes, for a text document its lines, for audio its tags
File(bytes, text, tags) == [bytes |-> bytes, text |-> text, tags |-> tags]
\* a file left by an earlier invocation, whatever its bytes are
OldFile == File("old", <<>>, NoTags)

\* a writer that never looks at the target
exists_never(path) == FALSE

\* file_path.exists()
exists(path) == path \in DOMAIN fs

CoverPath == <<"c", "o", "v", "e", "r", ".", "j", "p", "g">>
TextPath(b) == sanitize_filepath(b.title \o <<".", "m", "d">>)
AudioPath(chapter_data) ==
    <<"0">> \o str(chapter_data.order_no) \o <<".", "m", "4", "a">>

\* the artifact target paths of an item
ArtifactPaths(item) ==
    {CoverPath, TextPath([title |-> BookTitle])}
        \cup {AudioPath(item.chapters[k]) : k \in 1..Len(item.chapters)}

\* ------------------------------------------------------------- exceptions
NoError == [type |-> "none", cause |-> "none"]
Exc(type) == [type |-> type, cause |-> "none"]

\* a pipeline that carries on with the cover when a chapter's audio fails
Raise_swallowed(e) ==
    pc' = (IF pc = "audio" THEN "cover" ELSE "aborted") /\ err' = e

\* an uncaught exception at module level ends the process
Raise(e) == pc' = "aborted" /\ err' = e
Goto(p) == pc' = p /\ err' = err

\* ------------------------------------------------- _request and its retry
\* what one execution of the body of _request raises
AttemptException(o) ==
    IF o.raised THEN "CloudflareChallengeError"      \* from scraper.get
    ELSE IF o.status >= 400 /\ o.status < 600 THEN "HTTPError"  \* raise_for_status
    ELSE "none"

\* a policy that retries on any exception
retry_any(e) == TRUE

\* retry=tenacity.retry_if_exception_type(CloudflareChallengeError)
retry(e) == e = "CloudflareChallengeError"

\* a policy that stops one attempt early
stop_early(n) == n >= CLOUDFLARE_MAX_ATTEMPTS - 1

\* stop=tenacity.stop_after_attempt(CLOUDFLARE_MAX_ATTEMPTS)
stop(n) == n >= CLOUDFLARE_MAX_ATTEMPTS

\* a policy with reraise=True
retry_error_reraise(e) == [type |-> e, cause |-> "none"]

\* no reraise argument: when the policy stops, tenacity raises RetryError
\* from the exception of the last attempt
retry_error(e) == [type |-> "RetryError", cause |-> e]

\* One attempt of _request(url) with outcome o, and what follows it: the
\* sleep before the next attempt, the exception that leaves the call, or
\* the return of the response to the caller, which continues with Cont.
request(o, Cont) ==
    LET e == AttemptException(o) IN
    /\ sent' = TRUE
    /\ outcomes' = IF attempt = 1 THEN <<o>> ELSE Append(outcomes, o)
    /\ IF e = "none"
         THEN attempt' = 1 /\ ret' = <<o>> /\ Cont
       ELSE IF ~retry(e)
         THEN attempt' = 1 /\ ret' = <<>> /\ Raise(Exc(e)) /\ UNCHANGED prog
       ELSE IF stop(attempt)
         THEN /\ attempt' = 1 /\ ret' = <<>>
              /\ Raise(retry_error(e)) /\ UNCHANGED prog
       ELSE /\ attempt' = attempt + 1 /\ ret' = <<>>
            /\ UNCHANGED <<pc, err>> /\ UNCHANGED prog

\* _api_request: response.json() of a body that is not JSON raises
api_request(o, Cont) ==
    request(o, IF o.body = "good" THEN Cont
               ELSE Raise(Exc("JSONDecodeError")) /\ UNCHANGED prog)

NoRequest == sent' = FALSE /\ UNCHANGED <<attempt, outcomes, ret>>

\* ---------------------------------------------------------- pure functions
\* the lines of the text document
Line(kind, no, s) == [kind |-> kind, no |-> no, s |-> s]

Section(chapter) ==
    << Line("h2", <<"0">> \o str(chapter.order_no), chapter.action_title),
       Line("body", <<>>, chapter.text) >>

RECURSIVE Sections(_)
Sections(chs) == IF Len(chs) = 0 THEN <<>>
                 ELSE Section(Head(chs)) \o Sections(Tail(chs))

create_markdown_text(b, chs) ==
    << Line("h1", <<>>, b.title), Line("author", <<>>, b.author) >>
        \o Sections(chs)
        \o << Line("source", <<>>, b.url) >>

\* a tagger that stores title under the album key and album under the name key
set_m4a_meta_data_swapped(tags, artist, title, album) ==
    [ART |-> IF artist # <<>> THEN artist ELSE tags.ART,
     alb |-> IF title # <<>> THEN title ELSE tags.alb,
     nam |-> IF album # <<>> THEN album ELSE tags.nam]

\* tags of the file after set_m4a_meta_data(filename, artist, title, album)
set_m4a_meta_data(tags, artist, title, album) ==
    [ART |-> IF artist # <<>> THEN artist ELSE tags.ART,
     alb |-> IF title # <<>> THEN album ELSE tags.alb,
     nam |-> IF album # <<>> THEN title ELSE tags.nam]

\* urls collected by download_book_cover
cover_urls(b) ==
    UNION {{b.image[k].src} \cup b.image[k].srcset : k \in 1..Len(b.image)}

cover_name(x) == rstrip(LastSegment(x), {".", "j", "p", "g"})
cover_key(x) == int(cover_name(x))

\* insertion of x into a list sorted by key, largest first, behind the
\* elements of equal key (sorted is stable, also with reverse=True)
RECURSIVE insert_desc(_, _)
insert_desc(x, s) ==
    IF Len(s) = 0 THEN <<x>>
    ELSE IF cover_key(Head(s)) >= cover_key(x)
         THEN <<Head(s)>> \o insert_desc(x, Tail(s))
    ELSE <<x>> \o s

RECURSIVE sorted_desc(_)
sorted_desc(s) ==
    IF Len(s) = 0 THEN <<>>
    ELSE insert_desc(s[Len(s)], sorted_desc(SubSeq(s, 1, Len(s) - 1)))

\* a selection that sorts the urls as strings, without the key
select_cover_url_nokey(order) ==
    CHOOSE x \in {order[k] : k \in 1..Len(order)} :
       \A k \in 1..Len(order) : ~StrLess(x, order[k])

\* sorted(urls, key=..., reverse=True)[0] for urls iterated in this order
select_cover_url(order) == sorted_desc(order)[1]

RECURSIVE Perms(_)
\* the orders in which a set can be iterated
Perms(S) == IF S = {} THEN {<<>>}
            ELSE UNION {{<<x>> \o p : p \in Perms(S \ {x})} : x \in S}

\* ------------------------------------------------------------ the pipeline
TheBook == [title |-> BookTitle, author |-> BookAuthor, url |-> BookUrl,
            image |-> server.image]

\* what get_chapter returns for the chapter stub with this id
FullChapter(id) ==
    LET c == server.chapters[id] IN
    [order_no |-> c.order_no,
     action_title |-> ChapterTitle(c.order_no),
     text |-> ChapterText(c.order_no),
     signed_audio_url |-> c.signed_audio_url]

\* free_daily = get_free_daily(); book = free_daily['book'];
\* book_dir.mkdir(exist_ok=True), which fails when DOWNLOAD_DIR is missing
GetFreeDaily(o, mk) ==
    /\ pc = "free_daily"
    /\ mk \/ DOMAIN fs = {}
    /\ api_request(o,
         /\ book' = <<TheBook>>
         /\ UNCHANGED <<chapter_list, chapters, i, fs>>
         /\ IF mk THEN Goto("chapters") ELSE Raise(Exc("FileNotFoundError")))
    /\ UNCHANGED <<server, run, fs0, url>>

\* chapter_list = get_chapters(book['slug'])
GetChapters(o) ==
    /\ pc = "chapters"
    /\ api_request(o,
         /\ chapter_list' = [k \in 1..Len(server.chapters) |->
                               [id |-> k,
                                order_no |-> server.chapters[k].order_no]]
         /\ i' = 1
         /\ UNCHANGED <<book, chapters, fs>>
         /\ Goto(IF Len(server.chapters) = 0 THEN "text" ELSE "chapter"))
    /\ UNCHANGED <<server, run, fs0, url>>

\* one iteration of chapters = [get_chapter(book['id'], chapter['id']) ...]
GetChapter(o) ==
    /\ pc = "chapter"
    /\ api_request(o,
         /\ chapters' = Append(chapters, FullChapter(chapter_list[i].id))
         /\ UNCHANGED <<book, chapter_list, fs>>
         /\ IF i < Len(chapter_list)
              THEN i' = i + 1 /\ Goto("chapter")
              ELSE i' = 1 /\ Goto("text"))
    /\ UNCHANGED <<server, run, fs0, url>>

\* download_book_text(book, chapters); w is what the file system does:
\* the write succeeds, open fails, or write fails after open truncated
DownloadBookText(w) ==
    LET file_path == TextPath(book[1])
        next == IF Len(chapters) = 0 THEN "cover" ELSE "audio"
    IN
    /\ pc = "text"
    /\ IF exists(file_path)
         THEN fs' = fs /\ Goto(next)
       ELSE IF w = "ok"
         THEN /\ fs' = (file_path :>
                          File("text", create_markdown_text(book[1], chapters),
                               NoTags)) @@ fs
              /\ Goto(next)
       ELSE IF w = "open"
         THEN fs' = fs /\ Raise(Exc("OSError"))
       ELSE /\ fs' = (file_path :> File("text", <<>>, NoTags)) @@ fs
            /\ Raise(Exc("OSError"))
    /\ i' = 1
    /\ NoRequest
    /\ UNCHANGED <<server, run, fs0, book, chapter_list, chapters, url>>

AfterAudio ==
    IF i < Len(chapters) THEN i' = i + 1 /\ Goto("audio")
    ELSE i' = 1 /\ Goto("cover")

\* download_chapter_audio(book, chapter) for chapter = chapters[i]
DownloadChapterAudio(o) ==
    LET chapter_data == chapters[i]
        file_path == AudioPath(chapter_data)
    IN
    /\ pc = "audio"
    /\ IF exists(file_path)
         THEN /\ AfterAudio /\ NoRequest
              /\ UNCHANGED <<book, chapter_list, chapters, fs>>
       ELSE IF ~Contains(chapter_data.signed_audio_url, <<"m", "4", "a">>)
         THEN /\ Raise(Exc("AssertionError")) /\ NoRequest
              /\ UNCHANGED prog
       ELSE request(o,
              IF o.status # 200
                THEN Raise(Exc("AssertionError")) /\ UNCHANGED prog
              ELSE IF o.body # "good"
                \* write_bytes, then MP4(filename) rejects the bytes
                THEN /\ fs' = (file_path :> File(o.body, <<>>, NoTags))
                                 @@ fs
                     /\ Raise(Exc("MP4StreamInfoError"))
                     /\ UNCHANGED <<book, chapter_list, chapters, i>>
              ELSE /\ fs' = (file_path :>
                               File(o.body, <<>>,
                                    set_m4a_meta_data(NoTags,
                                        book[1].author,
                                        chapter_data.action_title,
                                        book[1].title))) @@ fs
                   /\ AfterAudio
                   /\ UNCHANGED <<book, chapter_list, chapters>>)
    /\ UNCHANGED <<server, run, fs0, url>>

\* what sorted(urls, key=..., reverse=True)[0] raises, "none" when it returns
select_raises(urls) ==
    IF \E x \in urls : ~IsInt(cover_name(x)) THEN "ValueError"
    ELSE IF urls = {} THEN "IndexError"
    ELSE "none"

\* the urls the selection can return, over the orders in which the set urls
\* can be iterated
selected_urls(urls) == {select_cover_url(order) : order \in Perms(urls)}

\* download_book_cover(book)
DownloadBookCover(o) ==
    /\ pc = "cover"
    /\ LET urls == cover_urls(book[1]) IN
       IF attempt = 1 /\ select_raises(urls) # "none"
         THEN /\ Raise(Exc(select_raises(urls))) /\ NoRequest
              /\ UNCHANGED <<prog, url>>
       ELSE
         /\ url' \in (IF attempt = 1 THEN selected_urls(urls) ELSE {url})
         /\ IF exists(CoverPath)
              THEN /\ Goto("done") /\ NoRequest
                   /\ UNCHANGED <<book, chapter_list, chapters, i, fs>>
            ELSE IF ~endswith(url', <<".", "j", "p", "g">>)
              THEN /\ Raise(Exc("AssertionError")) /\ NoRequest
                   /\ UNCHANGED <<book, chapter_list, chapters, i, fs>>
            ELSE request(o,
                   /\ UNCHANGED <<book, chapter_list, chapters, i>>
                   /\ IF o.status # 200
                        THEN fs' = fs /\ Raise(Exc("AssertionError"))
                        ELSE /\ fs' = (CoverPath :>
                                         File(o.body, <<>>, NoTags)) @@ fs
                             /\ Goto("done"))
    /\ UNCHANGED <<server, run, fs0>>

\* the script is invoked again, for the same date and item
NewRun ==
    /\ pc \in {"done", "aborted"}
    /\ run < MaxRuns
    /\ run' = run + 1
    /\ pc' = "free_daily"
    /\ err' = NoError
    /\ book' = <<>> /\ chapter_list' = <<>> /\ chapters' = <<>>
    /\ i' = 1 /\ url' = <<>>
    /\ attempt' = 1 /\ outcomes' = <<>> /\ ret' = <<>> /\ sent' = FALSE
    /\ fs0' = fs
    /\ UNCHANGED <<server, fs>>

\* the state when the script starts: any item, any files left in book_dir
Init ==
    /\ server \in [chapters : ChapterLists, image : PipelineImages]
    /\ fs \in {[p \in P |-> OldFile] : P \in SUBSET ArtifactPaths(server)}
    /\ fs0 = fs
    /\ pc = "free_daily"
    /\ run = 1
    /\ err = NoError
    /\ book = <<>> /\ chapter_list = <<>> /\ chapters = <<>>
    /\ i = 1 /\ url = <<>>
    /\ attempt = 1 /\ outcomes = <<>> /\ ret = <<>> /\ sent = FALSE

Next ==
    \/ \E o \in Outcomes, mk \in BOOLEAN : GetFreeDaily(o, mk)
    \/ \E o \in Outcomes : GetChapters(o)
    \/ \E o \in Outcomes : GetChapter(o)
    \/ \E w \in {"ok", "open", "write"} : DownloadBookText(w)
    \/ \E o \in Outcomes : DownloadChapterAudio(o)
    \/ \E o \in Outcomes : DownloadBookCover(o)
    \/ NewRun

Spec == Init /\ [][Next]_vars

\* ------------------------------------------------ cover selection on its own
\* download_book_cover applied to any image descriptor, with and without a
\* cover file in place
InitCover ==
    /\ server \in [chapters : {<<>>}, image : Images]
    /\ fs \in {[p \in P |-> OldFile] : P \in SUBSET {CoverPath}}
    /\ fs0 = fs
    /\ pc = "cover"
    /\ run = 1
    /\ err = NoError
    /\ book = <<TheBook>> /\ chapter_list = <<>> /\ chapters = <<>>
    /\ i = 1 /\ url = <<>>
    /\ attempt = 1 /\ outcomes = <<>> /\ ret = <<>> /\ sent = FALSE

NextCover == \E o \in Outcomes : DownloadBookCover(o)

SpecCover == InitCover /\ [][NextCover]_vars

\* ------------------------------------------------------------ _request claims
AllChallenges(s) == \A j \in 1..Len(s) : s[j].raised
IsSuccess(o) == ~o.raised /\ o.status < 400
IsHttpError(o) == ~o.raised /\ o.status >= 400

\* C1: when the challenge error is raised on the first k attempts (k = 0, 1
\* or 2) of a _request call, the call goes on to attempt k+1; when that
\* attempt succeeds the call returns its response and no further attempt is
\* made (exactly k+1 attempts).
C1_RetryThenSuccess ==
    \A k \in 0..(CLOUDFLARE_MAX_ATTEMPTS - 1) :
       /\ (Len(outcomes) = k /\ k >= 1 /\ AllChallenges(outcomes))
            => (pc # "aborted" /\ attempt = k + 1 /\ ret = <<>>)
       /\ (/\ Len(outcomes) > k
           /\ AllChallenges(SubSeq(outcomes, 1, k))
           /\ IsSuccess(outcomes[k + 1]))
            => (/\ Len(outcomes) = k + 1
                /\ ret = <<outcomes[k + 1]>>
                /\ attempt = 1)

C1_Witness ==
    /\ Len(outcomes) = 3
    /\ outcomes[1].raised /\ outcomes[2].raised
    /\ IsSuccess(outcomes[3])
    /\ ret = <<outcomes[3]>>

\* C2 as stated: when the challenge error is raised on every attempt, the call
\* stops after exactly CLOUDFLARE_MAX_ATTEMPTS attempts and the run is aborted
\* by the challenge error itself.
C2_ChallengeErrorSurfaced ==
    (Len(outcomes) >= CLOUDFLARE_MAX_ATTEMPTS /\ AllChallenges(outcomes))
       => (/\ Len(outcomes) = CLOUDFLARE_MAX_ATTEMPTS
           /\ pc = "aborted"
           /\ err.type = "CloudflareChallengeError")

\* C2 amended: when the challenge error is raised on every attempt, the call
\* stops after exactly CLOUDFLARE_MAX_ATTEMPTS attempts and the run is aborted
\* by a tenacity RetryError whose cause is the challenge error of the final
\* attempt.
C2_RetryErrorSurfaced ==
    (Len(outcomes) >= CLOUDFLARE_MAX_ATTEMPTS /\ AllChallenges(outcomes))
       => (/\ Len(outcomes) = CLOUDFLARE_MAX_ATTEMPTS
           /\ pc = "aborted"
           /\ ret = <<>>
           /\ err = [type |-> "RetryError",
                     cause |-> "CloudflareChallengeError"])

C2_Witness ==
    /\ Len(outcomes) = CLOUDFLARE_MAX_ATTEMPTS
    /\ AllChallenges(outcomes)
    /\ pc = "aborted"

\* C3: an attempt whose response has an HTTP error status is the last attempt
\* of its _request call, whatever attempts remain, and the HTTPError ends the
\* run.
C3_HttpErrorNotRetried ==
    \A j \in 1..Len(outcomes) :
       IsHttpError(outcomes[j])
          => (/\ j = Len(outcomes)
              /\ attempt = 1
              /\ ret = <<>>
              /\ pc = "aborted"
              /\ err = Exc("HTTPError"))

C3_Witness ==
    /\ Len(outcomes) = 2
    /\ outcomes[1].raised
    /\ IsHttpError(outcomes[2])
    /\ pc = "aborted"

\* ------------------------------------------------------------ pipeline claims
\* C4: once an error has ended the run, that run issues no request and
\* creates, modifies or removes no file: the position is "aborted" and the
\* files stay as they were when the error occurred.
C4_AbortOnFirstError ==
    [][(err # NoError /\ run' = run)
          => (pc = "aborted" /\ pc' = "aborted" /\ fs' = fs /\ ~sent')]_vars

\* a run aborted by the tagging of an audio file, after it wrote the text
\* document and the audio bytes, which stay on disk
C4_Witness ==
    /\ pc = "aborted"
    /\ err = Exc("MP4StreamInfoError")
    /\ TextPath(book[1]) \in DOMAIN fs \ DOMAIN fs0
    /\ \E k \in 1..Len(chapters) :
          /\ AudioPath(chapters[k]) \in DOMAIN fs \ DOMAIN fs0
          /\ fs[AudioPath(chapters[k])].bytes = "bad"

\* C5: every file that existed when the run started is still there with the
\* same bytes, the run creates files at artifact target paths only, and a run
\* that starts with every artifact in place changes no file.
C5_NeverOverwrite ==
    /\ \A p \in DOMAIN fs0 : p \in DOMAIN fs /\ fs[p] = fs0[p]
    /\ DOMAIN fs \subseteq (DOMAIN fs0 \cup ArtifactPaths(server))
    /\ (ArtifactPaths(server) \subseteq DOMAIN fs0) => fs = fs0

\* a second run that completed over the untagged audio file an aborted first
\* run left behind
C5_Witness ==
    /\ run = 2
    /\ pc = "done"
    /\ \E k \in 1..Len(chapters) :
          /\ AudioPath(chapters[k]) \in DOMAIN fs0
          /\ fs0[AudioPath(chapters[k])] = File("bad", <<>>, NoTags)
          /\ fs[AudioPath(chapters[k])] = File("bad", <<>>, NoTags)

\* C6: a step whose target file already exists raises no error, issues no
\* request and hands over to the next step, for the text document, a chapter
\* audio file and the cover alike.
C6_ExistingFileSkipped ==
    [][/\ (pc = "text" /\ TextPath(book[1]) \in DOMAIN fs)
            => (pc' \in {"audio", "cover"} /\ err' = NoError /\ ~sent')
       /\ (pc = "audio" /\ AudioPath(chapters[i]) \in DOMAIN fs)
            => (pc' \in {"audio", "cover"} /\ err' = NoError /\ ~sent')
       /\ (pc = "cover" /\ CoverPath \in DOMAIN fs)
            => (pc' = "done" /\ err' = NoError /\ ~sent')]_vars

\* the audio files of the item that were written and tagged
TaggedAudio ==
    {k \in 1..Len(server.chapters) :
        /\ AudioPath(FullChapter(k)) \in DOMAIN fs
        /\ fs[AudioPath(FullChapter(k))].bytes = "good"}

\* C7 as stated: a written chapter audio file carries artist = item author,
\* album = chapter title, title = item title.
C7_TagsAsStated ==
    \A k \in TaggedAudio :
       fs[AudioPath(FullChapter(k))].tags =
          [ART |-> BookAuthor,
           alb |-> FullChapter(k).action_title,
           nam |-> BookTitle]

\* C7 amended: a written chapter audio file carries artist = item author,
\* album = item title, title = chapter title.
C7_TagsAsWritten ==
    \A k \in TaggedAudio :
       fs[AudioPath(FullChapter(k))].tags =
          [ART |-> BookAuthor,
           alb |-> BookTitle,
           nam |-> FullChapter(k).action_title]

C7_Witness ==
    \E k \in TaggedAudio :
       /\ AudioPath(FullChapter(k)) \notin DOMAIN fs0
       /\ fs[AudioPath(FullChapter(k))].tags.nam = ChapterTitle(MaxOrderNo)

\* the chapter headings of a text document
Headings(doc) == LET IsH2(l) == l.kind = "h2" IN SelectSeq(doc, IsH2)

\* the text document, when a run wrote it in full
WrittenText ==
    IF /\ book # <<>>
       /\ TextPath(book[1]) \in DOMAIN fs
       /\ fs[TextPath(book[1])].text # <<>>
    THEN fs[TextPath(book[1])].text
    ELSE <<>>

\* C8: the chapter sections of the text document appear in increasing
\* sequence number, whatever the order of the chapter list of the API.
C8_TextInSequenceOrder ==
    LET H == Headings(WrittenText) IN
    \A a, b \in 1..Len(H) : a < b => int(H[a].no) < int(H[b].no)

\* n zero-padded to two digits, 1 <= n <= 99
Pad2(n) == <<DigitChar[(n \div 10) + 1], DigitChar[(n % 10) + 1]>>

\* C10: every sequence number 1..99 is rendered zero-padded to two digits in
\* the audio file name and in the heading, and the audio file names increase
\* strictly, as names, with the sequence number.
C10_TwoDigitPadding ==
    /\ pc \in {"cover", "done"} =>
          \A k \in 1..Len(chapters) :
             (Pad2(chapters[k].order_no) \o <<".", "m", "4", "a">>)
                 \in DOMAIN fs
    /\ LET H == Headings(WrittenText) IN
       \A a \in 1..Len(H) :
          \E k \in 1..Len(server.chapters) :
             H[a].no = Pad2(server.chapters[k].order_no)
    /\ \A a, b \in 1..Len(server.chapters) :
          LET ca == FullChapter(a)
              cb == FullChapter(b)
          IN (/\ ca.order_no < cb.order_no
              /\ AudioPath(ca) \in DOMAIN fs \ DOMAIN fs0
              /\ AudioPath(cb) \in DOMAIN fs \ DOMAIN fs0)
                => StrLess(AudioPath(ca), AudioPath(cb))

\* --------------------------------------------------------------- cover claim
\* the integer n of a file name "<n>.jpg", -1 when the name is not of the form
JpgNumber(x) ==
    LET name == LastSegment(x)
        stem == SubSeq(name, 1, Len(name) - 4)
    IN IF endswith(name, <<".", "j", "p", "g">>) /\ IsInt(stem)
       THEN int(stem) ELSE -1

DistinctJpgNumbers(urls) ==
    /\ urls # {}
    /\ \A x \in urls : JpgNumber(x) >= 0
    /\ \A x, y \in urls : x # y => JpgNumber(x) # JpgNumber(y)

\* C9: when the collected urls have distinct integer file names "<n>.jpg",
\* download_book_cover selects the url of the largest n, in whatever order
\* the set is iterated.
C9_LargestCoverSelected ==
    LET urls == cover_urls(book[1]) IN
    (pc # "cover" /\ DistinctJpgNumbers(urls))
       => (url \in urls /\ \A x \in urls : JpgNumber(x) <= JpgNumber(url))

\* the largest of three urls was selected although a string comparison
\* would rank "99.jpg" first
C9_Witness ==
    /\ pc = "done"
    /\ cover_urls(book[1]) = {Url99, Url100, Url400}
    /\ url = Url400

====
